---- MODULE Spec2Model ----
(***************************************************************************)
(* Recipe-sharing application: the recipes handler (src/api/recipes.js)    *)
(* and the comments handler (src/app.js, lines 835-1040) over a document   *)
(* store with two collections, `recipes` and `comments`, and the client    *)
(* (src/app.js, lines 1-834): its recipe listing and search form, its      *)
(* recipe modal and the comment form of the modal.                         *)
(*                                                                         *)
(* A JavaScript value of a request is a record [t, s]: t is its type and s *)
(* is the text String(value) gives, a sequence of one-character strings.   *)
(* One action is one request handled from its first line to its response;  *)
(* each store call of a handler may fail (throw), chosen by `fail`.  Where *)
(* requests run concurrently, and in the client, an action runs from one   *)
(* `await` to the next.                                                    *)
(***************************************************************************)
EXTENDS Integers, Sequences, FiniteSets, TLC

VARIABLES
    recipes,         \* the `recipes` collection: document id -> document
    comments,        \* the `comments` collection: document id -> document
    usedRecipeIds,   \* the ids the store has generated for recipes
    usedCommentIds,  \* the ids the store has generated for comments
    now,             \* the server clock
    req,             \* the request served last
    resp,            \* the response to it
    pre,             \* the two collections as they were when it arrived
    created,         \* recipe id -> the record its 201 response returned, until deleted
    deleted,         \* the recipe ids a DELETE answered 200 has removed
    sanitizer,       \* the handler whose sanitizeString is called
    submitted,       \* the value it is called with
    sanitized,       \* its results so far: of that value, then of the first result
    pending,         \* concurrent requests: slot -> the request and where it awaits
    inserted,        \* comment id -> whether its recipe was stored at the check and at the insert
    currentRecipeId, \* the client's global of that name: a recipe id, or none
    modalDisplay,    \* style.display of the recipe modal
    recipeDetail,    \* what the element `recipe-detail` shows
    commentsList,    \* the comments the element `comments-list` shows
    noComments,      \* whether the element `no-comments` is shown
    commentsLoading, \* whether the element `comments-loading` is shown
    fetches,         \* the client's requests in flight
    opened,          \* the calls of openRecipeModal so far
    arrived,         \* the response that arrived last, until the next call
    clock,           \* the browser's time, in milliseconds
    timers,          \* the timers set and neither fired nor cleared
    timeout,         \* the variable `timeout` of debounce: the id of the timer set last
    typed,           \* the input events so far
    lastInput,       \* the time of the latest input event
    searched,        \* the runs of performSearch since the latest input event
    lastSearch,      \* the time of the latest run of performSearch
    allRecipes,      \* the client's global of that name: the recipes as loaded
    searchInput,     \* the value of the element `search-input`
    categoryFilter,  \* the value of the element `category-filter`
    recipesContainer,\* the recipes whose cards the element `recipes-container` shows
    recipesEmpty,    \* whether the element `recipes-empty` is shown
    recipesLoading,  \* whether the request of fetchAllRecipes is in flight
    ran,             \* the function of the recipes page that ran last
    posts,           \* the comment POSTs of handleCommentSubmit in flight
    posted,          \* the calls of handleCommentSubmit that sent a POST so far
    refreshed        \* the latest refresh: the recipe posted to and the id fetched for

\* the state of the two handlers and their store
serverVars == <<recipes, comments, usedRecipeIds, usedCommentIds, now,
                req, resp, pre, created, deleted>>

\* the state of a call of sanitizeString taken alone
sanitizerVars == <<sanitizer, submitted, sanitized>>

\* the state of requests served concurrently
raceVars == <<pending, inserted>>

\* the state of the recipe modal of the client
modalVars == <<currentRecipeId, modalDisplay, recipeDetail, commentsList, noComments,
               commentsLoading, fetches, opened, arrived>>

\* the state of the debounced search input of the client
debounceVars == <<clock, timers, timeout, typed, lastInput, searched, lastSearch>>

\* the state of the recipes listing and its search form
searchVars == <<allRecipes, searchInput, categoryFilter, recipesContainer, recipesEmpty,
                recipesLoading, ran>>

\* the state of the comment form of the modal
submitVars == <<posts, posted, refreshed>>

\* the state of the client
clientVars == <<modalVars, debounceVars, searchVars, submitVars>>

vars == <<serverVars, sanitizerVars, raceVars, clientVars>>

(***************************************************************************)
(* Bounds of the model.                                                    *)
(***************************************************************************)
\* recipes created over a run
MaxRecipes == 2
\* comments created over a run
MaxComments == 1
\* the server clock runs over 0..MaxTime
MaxTime == 1
\* the length of the strings sanitizeString is called with, the strings
\* around the two length limits apart
MaxLen == 3
\* requests served concurrently
MaxInFlight == 2
\* calls of openRecipeModal over a run
MaxOpened == 3
\* input events over a run
MaxTyped == 3
\* comments submitted from the modal over a run
MaxPosted == 2
\* the browser's time runs over 0..MaxClock, in steps of TickMs
MaxClock == 1200
TickMs == 100
\* recipes fetchAllRecipes loads
MaxListed == 3
\* the length of the text typed into the search input
MaxTermLen == 2

(***************************************************************************)
(* Program constants.                                                      *)
(***************************************************************************)
RecipeMaxLen == 10000
\* debounce(performSearch, 300)
SearchWait == 300
CommentMaxLen == 1000
UsernameMaxLen == 100

(***************************************************************************)
(* JavaScript values and strings.                                          *)
(***************************************************************************)
Undef == [t |-> "undefined", s |-> <<>>]
Null == [t |-> "null", s |-> <<>>]
Str(s) == [t |-> "string", s |-> s]
\* a number, by its decimal text
Num(s) == [t |-> "number", s |-> s]
\* an array, by the text String() gives for it (the elements joined by ",")
Arr(s) == [t |-> "array", s |-> s]
\* true or false, by the text String() gives for it
Bool(s) == [t |-> "boolean", s |-> s]
\* an object, by the text String() gives for it
Obj(s) == [t |-> "object", s |-> s]

\* n copies of the character c
Rep(c, n) == [i \in 1..n |-> c]

\* JavaScript truthiness, as `!input` and `!recipeData.name` decide it
Truthy(v) ==
    CASE v.t = "undefined" -> FALSE
      [] v.t = "null" -> FALSE
      [] v.t = "string" -> v.s /= <<>>
      [] v.t = "number" -> v.s /= <<"0">>
      [] v.t = "boolean" -> v.s = <<"t", "r", "u", "e">>
      [] OTHER -> TRUE

IsSpace(c) == c = " "

\* String.prototype.trim
RECURSIVE TrimLeft(_)
TrimLeft(s) == IF s /= <<>> /\ IsSpace(Head(s)) THEN TrimLeft(Tail(s)) ELSE s

RECURSIVE TrimRight(_)
TrimRight(s) ==
    IF s /= <<>> /\ IsSpace(s[Len(s)]) THEN TrimRight(SubSeq(s, 1, Len(s) - 1)) ELSE s

Trim(s) == TrimRight(TrimLeft(s))

\* a replace that removes the opening brackets only
StripBrackets_Open(s) == SelectSeq(s, LAMBDA c : c /= "<")

\* .replace(/[<>]/g, '')
StripBrackets(s) == SelectSeq(s, LAMBDA c : c /= "<" /\ c /= ">")

\* .substring(0, n)
Substring0(s, n) == IF Len(s) > n THEN SubSeq(s, 1, n) ELSE s

\* sanitizeString of src/api/recipes.js
sanitizeString(input) ==
    IF ~Truthy(input) THEN <<>>
    ELSE IF input.t /= "string" THEN input.s
    ELSE Substring0(StripBrackets(Trim(input.s)), RecipeMaxLen)

\* a sanitizer whose limit is a single character
sanitizeStringComments_One(input) ==
    IF ~Truthy(input) THEN <<>>
    ELSE IF input.t /= "string" THEN input.s
    ELSE Substring0(StripBrackets(Trim(input.s)), 1)

\* sanitizeString of the comments handler
sanitizeStringComments(input) ==
    IF ~Truthy(input) THEN <<>>
    ELSE IF input.t /= "string" THEN input.s
    ELSE Substring0(StripBrackets(Trim(input.s)), CommentMaxLen)

\* the left operand kept even when it is empty
OrElse_Keep(s, d) == s

\* `a || b` on strings
OrElse(s, d) == IF s /= <<>> THEN s ELSE d


(***************************************************************************)
(* The document store (Firestore), as the handlers use it.                 *)
(***************************************************************************)
Digits == <<"1", "2", "3", "4", "5", "6", "7", "8", "9">>

\* the auto-generated document ids of the two collections
RecipeIdPool == { <<"r", Digits[i]>> : i \in 1..MaxRecipes }
CommentIdPool == { <<"c", Digits[i]>> : i \in 1..MaxComments }

\* null / no value
NoId == <<>>

\* a snapshot that always says the document exists
Exists_Always(coll, id) == TRUE

\* collection.doc(path) takes a non-empty string and throws on anything else
IsDocumentPath(v) == v.t = "string" /\ v.s /= <<>>

\* doc.exists of a DocumentSnapshot
Exists(coll, id) == id \in DOMAIN coll

\* the id collection.add() generates: one no document of the collection ever had
NewId(prefix, used) == <<prefix, Digits[Cardinality(used) + 1]>>

\* collection.add(data)
Add(coll, id, data) == (id :> data) @@ coll

\* a delete that removes nothing
Remove_Nothing(coll, id) == coll

\* docRef.delete()
Remove(coll, id) == [k \in (DOMAIN coll) \ {id} |-> coll[k]]

\* the query ordered 'asc'
OrderByCreatedAt_Asc(coll, ids) ==
    { q \in [1..Cardinality(ids) -> ids] :
        /\ \A i, j \in DOMAIN q : i /= j => q[i] /= q[j]
        /\ \A i, j \in DOMAIN q : i < j => coll[q[i]].createdAt <= coll[q[j]].createdAt }

\* the orders a query .orderBy('createdAt', 'desc') may give the documents `ids`
OrderByCreatedAtDesc(coll, ids) ==
    { q \in [1..Cardinality(ids) -> ids] :
        /\ \A i, j \in DOMAIN q : i /= j => q[i] /= q[j]
        /\ \A i, j \in DOMAIN q : i < j => coll[q[i]].createdAt >= coll[q[j]].createdAt }

\* .limit(n)
Limit(q, n) == IF Len(q) > n THEN SubSeq(q, 1, n) ELSE q

\* {id: doc.id, ...doc.data()}
Item(coll, id) == [id |-> id, data |-> coll[id]]

\* snapshot.forEach(doc => list.push({id: doc.id, ...doc.data()}))
Items(coll, q) == [i \in DOMAIN q |-> Item(coll, q[i])]

(***************************************************************************)
(* Requests and responses.                                                 *)
(***************************************************************************)
\* req.body when the request carries none
NoBody == [t |-> "undefined"]

RecipeBody(name, category, ingredients, instructions, notes) ==
    [t |-> "object", name |-> name, category |-> category, prepTime |-> Undef,
     cookTime |-> Undef, ingredients |-> ingredients, instructions |-> instructions,
     notes |-> notes]

CommentBody(recipeId, username, comment) ==
    [t |-> "object", recipeId |-> recipeId, username |-> username, comment |-> comment]

Request(handler, method, seg, recent, recipeId, body, fail) ==
    [handler |-> handler, method |-> method, seg |-> seg, recent |-> recent,
     recipeId |-> recipeId, body |-> body, fail |-> fail]

\* res.status(status).json(...): `cors` tells whether the CORS headers were set
\* on the response, `item` is the one returned document (or none), `items` the
\* returned list
Response(status, cors, error, item, items) ==
    [status |-> status, cors |-> cors, error |-> error, item |-> item,
     items |-> items, count |-> Len(items), allowedMethods |-> <<>>]

Snapshot == [recipes |-> recipes, comments |-> comments]

(***************************************************************************)
(* The recipes handler, src/api/recipes.js.                                *)
(***************************************************************************)
RecipesSeg == <<"r", "e", "c", "i", "p", "e", "s">>

\* the recipe id taken from the last part of the URL path
UrlRecipeId(seg) == IF seg /= <<>> /\ seg /= RecipesSeg THEN seg ELSE NoId

\* parseInt of a decimal digit string
ParseInt(v) == CHOOSE n \in 1..9 : Digits[n] = v.s[1]

\* the routing with DELETE sent to deleteRecipe whether or not the URL has an id
RecipesRoute_DeleteAny(method, recent, seg) ==
    IF method = "OPTIONS" THEN "options"
    ELSE IF method = "GET" /\ Truthy(recent) THEN "getRecentRecipes"
    ELSE IF method = "GET" /\ UrlRecipeId(seg) /= NoId THEN "getRecipeById"
    ELSE IF method = "GET" THEN "getAllRecipes"
    ELSE IF method = "POST" THEN "createRecipe"
    ELSE IF method = "DELETE" THEN "deleteRecipe"
    ELSE "methodNotAllowed"

\* the branch the handler takes
RecipesRoute(method, recent, seg) ==
    IF method = "OPTIONS" THEN "options"
    ELSE IF method = "GET" /\ Truthy(recent) THEN "getRecentRecipes"
    ELSE IF method = "GET" /\ UrlRecipeId(seg) /= NoId THEN "getRecipeById"
    ELSE IF method = "GET" THEN "getAllRecipes"
    ELSE IF method = "POST" THEN "createRecipe"
    ELSE IF method = "DELETE" /\ UrlRecipeId(seg) /= NoId THEN "deleteRecipe"
    ELSE "methodNotAllowed"

\* the check with only the name looked at
MissingRequired_NameOnly(body) == ~Truthy(body.name)

\* the required-fields check of createRecipe
MissingRequired(body) ==
    ~Truthy(body.name) \/ ~Truthy(body.ingredients) \/ ~Truthy(body.instructions)

Uncategorized == <<"u", "n", "c", "a", "t", "e", "g", "o", "r", "i", "z", "e", "d">>

\* the document createRecipe builds; ts is the server timestamp
NewRecipe(body, ts) ==
    [name |-> sanitizeString(body.name),
     category |-> OrElse(sanitizeString(body.category), Uncategorized),
     prepTime |-> OrElse(sanitizeString(body.prepTime), <<>>),
     cookTime |-> OrElse(sanitizeString(body.cookTime), <<>>),
     ingredients |-> sanitizeString(body.ingredients),
     instructions |-> sanitizeString(body.instructions),
     notes |-> OrElse(sanitizeString(body.notes), <<>>),
     createdAt |-> ts,
     updatedAt |-> ts]


\* what a handler leaves behind: the request it served, its response, and the
\* store as it was when the request arrived
Served(r, fail, rsp) ==
    /\ req' = [r EXCEPT !.fail = fail]
    /\ resp' = rsp
    /\ pre' = Snapshot

NoItem == <<>>

\* {error: ...} with a status
Error(status, error) == Response(status, TRUE, error, NoItem, <<>>)

StoreUnchanged ==
    UNCHANGED <<recipes, comments, usedRecipeIds, usedCommentIds, now,
                created, deleted>>

\* {error: 'Method not allowed', allowedMethods: [...]} with status 405
MethodNotAllowed(allowedMethods) ==
    [Error(405, "Method not allowed") EXCEPT !.allowedMethods = allowedMethods]

\* OPTIONS: answered before the CORS headers are set
RecipesOptions(r) ==
    /\ RecipesRoute(r.method, r.recent, r.seg) = "options"
    /\ Served(r, 0, Response(200, FALSE, "", NoItem, <<>>))
    /\ StoreUnchanged

RecipesMethodNotAllowed(r) ==
    /\ RecipesRoute(r.method, r.recent, r.seg) = "methodNotAllowed"
    /\ Served(r, 0, MethodNotAllowed(<<"GET", "POST", "DELETE">>))
    /\ StoreUnchanged

getAllRecipes(r) ==
    /\ RecipesRoute(r.method, r.recent, r.seg) = "getAllRecipes"
    /\ \/ Served(r, 1, Error(500, "Failed to retrieve recipes"))
       \/ \E q \in OrderByCreatedAtDesc(recipes, DOMAIN recipes) :
            Served(r, 0, Response(200, TRUE, "", NoItem, Items(recipes, q)))
    /\ StoreUnchanged

getRecentRecipes(r) ==
    /\ RecipesRoute(r.method, r.recent, r.seg) = "getRecentRecipes"
    /\ \/ Served(r, 1, Error(500, "Failed to retrieve recent recipes"))
       \/ \E q \in OrderByCreatedAtDesc(recipes, DOMAIN recipes) :
            Served(r, 0, Response(200, TRUE, "", NoItem,
                                  Items(recipes, Limit(q, ParseInt(r.recent)))))
    /\ StoreUnchanged

\* a response that leaves the document's text out
FetchedRecipe_NoData(coll, id) ==
    [id |-> id,
     data |-> [coll[id] EXCEPT !.name = <<>>, !.ingredients = <<>>, !.instructions = <<>>]]

\* the recipe getRecipeById returns
FetchedRecipe(coll, id) == Item(coll, id)

\* the recipe createRecipe returns, read back from the store
CreatedRecipe(coll, id) == Item(coll, id)

getRecipeById(r) ==
    LET id == UrlRecipeId(r.seg) IN
    /\ RecipesRoute(r.method, r.recent, r.seg) = "getRecipeById"
    /\ \/ Served(r, 1, Error(500, "Failed to retrieve recipe"))
       \/ /\ ~Exists(recipes, id)
          /\ Served(r, 0, Error(404, "Recipe not found"))
       \/ /\ Exists(recipes, id)
          /\ Served(r, 0, Response(200, TRUE, "", <<FetchedRecipe(recipes, id)>>, <<>>))
    /\ StoreUnchanged

createRecipe(r) ==
    /\ RecipesRoute(r.method, r.recent, r.seg) = "createRecipe"
    /\ \/ /\ r.body.t /= "object"
          /\ Served(r, 0, Error(500, "Failed to create recipe"))
          /\ StoreUnchanged
       \/ /\ r.body.t = "object"
          /\ MissingRequired(r.body)
          /\ Served(r, 0, Error(400, "Missing required fields"))
          /\ StoreUnchanged
       \/ /\ r.body.t = "object"
          /\ ~MissingRequired(r.body)
          /\ Served(r, 1, Error(500, "Failed to create recipe"))
          /\ StoreUnchanged
       \/ /\ r.body.t = "object"
          /\ ~MissingRequired(r.body)
          /\ usedRecipeIds /= RecipeIdPool
          /\ \E ts \in now..MaxTime :
                LET id == NewId("r", usedRecipeIds) IN
                /\ recipes' = Add(recipes, id, NewRecipe(r.body, ts))
                /\ usedRecipeIds' = usedRecipeIds \cup {id}
                /\ now' = ts
                /\ \/ /\ Served(r, 2, Error(500, "Failed to create recipe"))
                      /\ created' = created
                   \/ /\ Served(r, 0, Response(201, TRUE, "",
                                    <<CreatedRecipe(recipes', id)>>, <<>>))
                      /\ created' = (id :> CreatedRecipe(recipes', id).data) @@ created
                /\ UNCHANGED <<comments, usedCommentIds, deleted>>

deleteRecipe(r) ==
    LET id == UrlRecipeId(r.seg) IN
    /\ RecipesRoute(r.method, r.recent, r.seg) = "deleteRecipe"
    /\ \/ /\ Served(r, 1, Error(500, "Failed to delete recipe"))
          /\ StoreUnchanged
       \/ /\ ~Exists(recipes, id)
          /\ Served(r, 0, Error(404, "Recipe not found"))
          /\ StoreUnchanged
       \/ /\ Exists(recipes, id)
          /\ Served(r, 2, Error(500, "Failed to delete recipe"))
          /\ StoreUnchanged
       \/ /\ Exists(recipes, id)
          /\ recipes' = Remove(recipes, id)
          /\ deleted' = deleted \cup {id}
          /\ created' = Remove(created, id)
          /\ Served(r, 0, Response(200, TRUE, "", NoItem, <<>>))
          /\ UNCHANGED <<comments, usedRecipeIds, usedCommentIds, now>>

\* module.exports of src/api/recipes.js
RecipesHandler(r) ==
    \/ RecipesOptions(r)
    \/ getRecentRecipes(r)
    \/ getRecipeById(r)
    \/ getAllRecipes(r)
    \/ createRecipe(r)
    \/ deleteRecipe(r)
    \/ RecipesMethodNotAllowed(r)

(***************************************************************************)
(* The comments handler, src/app.js lines 835-1040.                        *)
(***************************************************************************)
\* the branch the handler takes
CommentsRoute(method) ==
    IF method = "OPTIONS" THEN "options"
    ELSE IF method = "GET" THEN "getComments"
    ELSE IF method = "POST" THEN "addComment"
    ELSE "methodNotAllowed"

\* the required-fields check of addComment
MissingCommentFields(body) ==
    ~Truthy(body.recipeId) \/ ~Truthy(body.username) \/ ~Truthy(body.comment)

\* the document addComment builds; ts is the server timestamp
NewComment(body, ts) ==
    [recipeId |-> sanitizeStringComments(body.recipeId),
     username |-> sanitizeStringComments(body.username),
     comment |-> sanitizeStringComments(body.comment),
     createdAt |-> ts]

\* the length checks of addComment, on the sanitized fields
InvalidCommentLength(newComment) ==
    Len(newComment.comment) < 1 \/ Len(newComment.comment) > CommentMaxLen

\* the username check left out
InvalidUsernameLength_Never(newComment) == FALSE

InvalidUsernameLength(newComment) ==
    Len(newComment.username) < 1 \/ Len(newComment.username) > UsernameMaxLen

\* the query without its where clause
WhereRecipeId_All(coll, recipeId) == DOMAIN coll

\* the query joined with the recipes: comments of stored recipes only
WhereRecipeId_Stored(coll, recipeId) ==
    { k \in DOMAIN coll : coll[k].recipeId = recipeId /\ recipeId \in DOMAIN recipes }

\* .where('recipeId', '==', recipeId)
WhereRecipeId(coll, recipeId) == { k \in DOMAIN coll : coll[k].recipeId = recipeId }

CommentsOptions(r) ==
    /\ CommentsRoute(r.method) = "options"
    /\ Served(r, 0, Response(200, FALSE, "", NoItem, <<>>))
    /\ StoreUnchanged

CommentsMethodNotAllowed(r) ==
    /\ CommentsRoute(r.method) = "methodNotAllowed"
    /\ Served(r, 0, MethodNotAllowed(<<"GET", "POST">>))
    /\ StoreUnchanged

getComments(r) ==
    /\ CommentsRoute(r.method) = "getComments"
    /\ \/ /\ ~Truthy(r.recipeId)
          /\ Served(r, 0, Error(400, "Recipe ID is required"))
       \/ /\ Truthy(r.recipeId)
          /\ Served(r, 1, Error(500, "Failed to retrieve comments"))
       \/ /\ Truthy(r.recipeId)
          /\ \E q \in OrderByCreatedAtDesc(comments,
                                           WhereRecipeId(comments, r.recipeId.s)) :
                Served(r, 0, Response(200, TRUE, "", NoItem, Items(comments, q)))
    /\ StoreUnchanged

addComment(r) ==
    /\ CommentsRoute(r.method) = "addComment"
    /\ \/ /\ r.body.t /= "object"
          /\ Served(r, 0, Error(500, "Failed to add comment"))
          /\ StoreUnchanged
       \/ /\ r.body.t = "object"
          /\ MissingCommentFields(r.body)
          /\ Served(r, 0, Error(400, "Missing required fields"))
          /\ StoreUnchanged
       \/ /\ r.body.t = "object"
          /\ ~MissingCommentFields(r.body)
          /\ ~IsDocumentPath(r.body.recipeId)
          /\ Served(r, 0, Error(500, "Failed to add comment"))
          /\ StoreUnchanged
       \/ /\ r.body.t = "object"
          /\ ~MissingCommentFields(r.body)
          /\ IsDocumentPath(r.body.recipeId)
          /\ Served(r, 1, Error(500, "Failed to add comment"))
          /\ StoreUnchanged
       \/ /\ r.body.t = "object"
          /\ ~MissingCommentFields(r.body)
          /\ IsDocumentPath(r.body.recipeId)
          /\ ~Exists(recipes, r.body.recipeId.s)
          /\ Served(r, 0, Error(404, "Recipe not found"))
          /\ StoreUnchanged
       \/ /\ r.body.t = "object"
          /\ ~MissingCommentFields(r.body)
          /\ IsDocumentPath(r.body.recipeId)
          /\ Exists(recipes, r.body.recipeId.s)
          /\ \E newComment \in {NewComment(r.body, now)} :
                \/ /\ InvalidCommentLength(newComment)
                   /\ Served(r, 0, Error(400, "Invalid comment length"))
                   /\ StoreUnchanged
                \/ /\ ~InvalidCommentLength(newComment)
                   /\ InvalidUsernameLength(newComment)
                   /\ Served(r, 0, Error(400, "Invalid username length"))
                   /\ StoreUnchanged
                \/ /\ ~InvalidCommentLength(newComment)
                   /\ ~InvalidUsernameLength(newComment)
                   /\ Served(r, 2, Error(500, "Failed to add comment"))
                   /\ StoreUnchanged
                \/ /\ ~InvalidCommentLength(newComment)
                   /\ ~InvalidUsernameLength(newComment)
                   /\ usedCommentIds /= CommentIdPool
                   /\ \E ts \in now..MaxTime :
                        LET id == NewId("c", usedCommentIds) IN
                        /\ comments' = Add(comments, id, [newComment EXCEPT !.createdAt = ts])
                        /\ usedCommentIds' = usedCommentIds \cup {id}
                        /\ now' = ts
                        /\ \/ Served(r, 3, Error(500, "Failed to add comment"))
                           \/ Served(r, 0, Response(201, TRUE, "",
                                        <<Item(comments', id)>>, <<>>))
                        /\ UNCHANGED <<recipes, usedRecipeIds, created, deleted>>

\* module.exports of the comments handler
CommentsHandler(r) ==
    \/ CommentsOptions(r)
    \/ getComments(r)
    \/ addComment(r)
    \/ CommentsMethodNotAllowed(r)

(***************************************************************************)
(* The requests of the model.                                              *)
(***************************************************************************)
\* a required recipe field as a well-formed request gives it; sanitizing
\* changes it
PlainVal == Str(<<" ", "a", "<">>)

\* the values a request gives a required recipe field
RequiredVals == { Undef, Str(<<>>), Str(<<" ", "<", ">">>), PlainVal }

\* recipe bodies: the three required fields over RequiredVals, at most one of
\* them other than PlainVal, and a name that is an empty array
RecipeBodies ==
    { RecipeBody(v, Undef, PlainVal, PlainVal, Undef) : v \in RequiredVals \cup {Arr(<<>>)} }
    \cup { RecipeBody(PlainVal, Undef, v, PlainVal, Undef) : v \in RequiredVals }
    \cup { RecipeBody(PlainVal, Undef, PlainVal, v, Undef) : v \in RequiredVals }

RecipesGet(seg, recent) == Request("recipes", "GET", seg, recent, Undef, NoBody, 0)
RecipesPost(body) == Request("recipes", "POST", RecipesSeg, Undef, Undef, body, 0)
RecipesOther(method, seg) == Request("recipes", method, seg, Undef, Undef, NoBody, 0)

RecentVals == { Str(<<"1">>), Str(<<"2">>) }

RecipesRequests ==
    { RecipesGet(seg, Undef) : seg \in {RecipesSeg} \cup RecipeIdPool }
    \cup { RecipesGet(RecipesSeg, n) : n \in RecentVals }
    \cup { RecipesPost(b) : b \in RecipeBodies \cup {NoBody} }
    \cup { RecipesOther("DELETE", seg) : seg \in {RecipesSeg} \cup RecipeIdPool }
    \cup { RecipesOther(m, RecipesSeg) : m \in {"PUT", "OPTIONS"} }

\* the recipe ids requests name: the ids of the pool, and the first of them
\* with a leading space, which names no document
RecipeIdVals ==
    { Str(id) : id \in RecipeIdPool } \cup { Str(<<" ", "r", "1">>) }

AnnVal == Str(<<"A", "n", "n">>)
OkVal == Str(<<"o", "k">>)

UsernameVals ==
    { Undef, Str(<<>>), Str(<<" ">>), AnnVal,
      Str(Rep("u", UsernameMaxLen)), Str(Rep("u", UsernameMaxLen + 1)),
      Str(<<"<">> \o Rep("u", UsernameMaxLen)) }

CommentVals ==
    { Undef, Str(<<>>), Str(<<"<", ">">>), OkVal,
      Str(Rep("d", CommentMaxLen)), Str(Rep("d", CommentMaxLen + 1)) }

FirstRecipe == Str(<<"r", "1">>)

\* comment bodies: for the first recipe of the pool every username with a
\* well-formed comment, every comment with a well-formed username, and both
\* out of range; a well-formed comment for every other recipe id, for none
\* and for a number
CommentBodies ==
    { CommentBody(FirstRecipe, u, OkVal) : u \in UsernameVals }
    \cup { CommentBody(FirstRecipe, AnnVal, c) : c \in CommentVals }
    \cup { CommentBody(FirstRecipe, Str(Rep("u", UsernameMaxLen + 1)), Str(<<"<", ">">>)) }
    \cup { CommentBody(i, AnnVal, OkVal) : i \in RecipeIdVals \cup {Undef, Num(<<"7">>)} }

CommentsGet(recipeId) == Request("comments", "GET", <<>>, Undef, recipeId, NoBody, 0)
CommentsPost(body) == Request("comments", "POST", <<>>, Undef, Undef, body, 0)
CommentsOther(method) == Request("comments", method, <<>>, Undef, Undef, NoBody, 0)

CommentsRequests ==
    { CommentsGet(i) : i \in RecipeIdVals \cup {Undef} }
    \cup { CommentsPost(b) : b \in CommentBodies \cup {NoBody} }
    \cup { CommentsOther(m) : m \in {"DELETE", "OPTIONS"} }

(***************************************************************************)
(* The system.                                                             *)
(***************************************************************************)
NoRequest == Request("none", "", <<>>, Undef, Undef, NoBody, 0)

\* no call of sanitizeString taken alone
SanitizerIdle ==
    /\ sanitizer = "none"
    /\ submitted = Undef
    /\ sanitized = <<>>

\* the handlers before their first request, over an empty store
ServerIdle ==
    /\ recipes = <<>>
    /\ comments = <<>>
    /\ usedRecipeIds = {}
    /\ usedCommentIds = {}
    /\ now = 0
    /\ req = NoRequest
    /\ resp = Response(0, FALSE, "", NoItem, <<>>)
    /\ pre = [recipes |-> <<>>, comments |-> <<>>]
    /\ created = <<>>
    /\ deleted = {}

\* no request served concurrently
RaceIdle ==
    /\ pending = <<>>
    /\ inserted = <<>>

\* no response of the server to the client
NoArrival == [kind |-> "none", recipeId |-> NoId, ok |-> FALSE, items |-> <<>>]

\* the page as loaded, the modal closed
ModalIdle ==
    /\ currentRecipeId = NoId
    /\ modalDisplay = "none"
    /\ recipeDetail = <<>>
    /\ commentsList = <<>>
    /\ noComments = FALSE
    /\ commentsLoading = FALSE
    /\ fetches = {}
    /\ opened = 0
    /\ arrived = NoArrival

\* no input event yet
DebounceIdle ==
    /\ clock = 0
    /\ timers = {}
    /\ timeout = 0
    /\ typed = 0
    /\ lastInput = -1
    /\ searched = 0
    /\ lastSearch = -1

\* the recipes page before fetchAllRecipes is called
SearchIdle ==
    /\ allRecipes = <<>>
    /\ searchInput = <<>>
    /\ categoryFilter = <<>>
    /\ recipesContainer = <<>>
    /\ recipesEmpty = FALSE
    /\ recipesLoading = FALSE
    /\ ran = "none"

\* no comment submitted yet
SubmitIdle ==
    /\ posts = {}
    /\ posted = 0
    /\ refreshed = [posted |-> NoId, fetched |-> NoId]

ClientIdle == ModalIdle /\ DebounceIdle /\ SearchIdle /\ SubmitIdle

Init ==
    /\ ServerIdle
    /\ SanitizerIdle
    /\ RaceIdle
    /\ ClientIdle

\* both handlers, over all the requests of the model; SpecRecipes and
\* SpecComments below are the two parts of it that are model-checked
Next ==
    /\ \/ \E r \in RecipesRequests : RecipesHandler(r)
       \/ \E r \in CommentsRequests : CommentsHandler(r)
    /\ UNCHANGED <<sanitizerVars, raceVars, clientVars>>

Spec == Init /\ [][Next]_vars

\* the recipes handler alone
NextRecipes ==
    /\ \E r \in RecipesRequests : RecipesHandler(r)
    /\ UNCHANGED <<sanitizerVars, raceVars, clientVars>>

SpecRecipes == Init /\ [][NextRecipes]_vars

\* the recipes the comments handler starts with: the first two of the pool,
\* as createRecipe stores a well-formed body
StoredIds == { <<"r", "1">>, <<"r", "2">> }

\* the handlers before their first request, over a store of two recipes
ServerStocked ==
    /\ recipes = [id \in StoredIds |->
                    NewRecipe(RecipeBody(PlainVal, Undef, PlainVal, PlainVal, Undef), 0)]
    /\ comments = <<>>
    /\ usedRecipeIds = StoredIds
    /\ usedCommentIds = {}
    /\ now = 0
    /\ req = NoRequest
    /\ resp = Response(0, FALSE, "", NoItem, <<>>)
    /\ pre = [recipes |-> recipes, comments |-> <<>>]
    /\ created = recipes
    /\ deleted = {}

InitComments ==
    /\ ServerStocked
    /\ SanitizerIdle
    /\ RaceIdle
    /\ ClientIdle

\* the comments handler, and the deletion of the first recipe
NextComments ==
    /\ \/ deleteRecipe(RecipesOther("DELETE", <<"r", "1">>))
       \/ \E r \in CommentsRequests : CommentsHandler(r)
    /\ UNCHANGED <<sanitizerVars, raceVars, clientVars>>

SpecComments == InitComments /\ [][NextComments]_vars

\* requests to both endpoints: every route of each, the unsupported methods,
\* and well-formed comment POSTs for the two stored recipes
ApiRequests ==
    { RecipesGet(seg, Undef) : seg \in {RecipesSeg, <<"r", "1">>} }
    \cup { RecipesGet(RecipesSeg, Str(<<"1">>)) }
    \cup { RecipesPost(RecipeBody(PlainVal, Undef, PlainVal, PlainVal, Undef)) }
    \cup { RecipesOther("DELETE", seg) : seg \in {RecipesSeg} \cup StoredIds }
    \cup { RecipesOther(m, seg) : m \in {"PUT", "PATCH"}, seg \in {RecipesSeg, <<"r", "1">>} }
    \cup { RecipesOther("OPTIONS", RecipesSeg) }
    \cup { CommentsGet(Str(id)) : id \in StoredIds }
    \cup { CommentsPost(CommentBody(Str(id), AnnVal, OkVal)) : id \in StoredIds }
    \cup { CommentsOther(m) : m \in {"PUT", "DELETE", "OPTIONS"} }

\* both handlers over ApiRequests, each request going to its endpoint
NextApi ==
    /\ \E r \in ApiRequests :
          \/ r.handler = "recipes" /\ RecipesHandler(r)
          \/ r.handler = "comments" /\ CommentsHandler(r)
    /\ UNCHANGED <<sanitizerVars, raceVars, clientVars>>

SpecApi == InitComments /\ [][NextApi]_vars

(***************************************************************************)
(* sanitizeString taken alone.                                             *)
(***************************************************************************)
Alphabet == {" ", "a", "<", ">"}

\* the strings of at most MaxLen characters
ShortStrings == UNION { [1..n -> Alphabet] : n \in 0..MaxLen }

\* strings around a length limit: of the limit, one over it, one over it
\* by a bracket, and one over it with a space where the cut falls
LongStrings(limit) ==
    { Rep("a", limit), Rep("a", limit + 1), <<"<">> \o Rep("a", limit),
      Rep("a", limit - 1) \o <<" ", "b">> }

\* what a request may hold where a string is expected
NonStrings ==
    { Undef, Null, Num(<<"0">>), Num(<<"7">>),
      Bool(<<"f", "a", "l", "s", "e">>), Bool(<<"t", "r", "u", "e">>),
      Obj(<<"[", "o", "b", "j", "e", "c", "t", " ", "O", "b", "j", "e", "c", "t", "]">>),
      Arr(<<>>), Arr(<<"<", "b", ">">>) }

SanitizerInputs ==
    { Str(s) : s \in ShortStrings \cup LongStrings(CommentMaxLen)
                                  \cup LongStrings(RecipeMaxLen) }
    \cup NonStrings

\* sanitizeString as the handler `h` defines it
SanitizeOf(h, v) ==
    IF h = "recipes" THEN sanitizeString(v) ELSE sanitizeStringComments(v)

\* the length limit of the handler `h`
LimitOf(h) == IF h = "recipes" THEN RecipeMaxLen ELSE CommentMaxLen

InitSanitizer ==
    /\ ServerIdle
    /\ sanitizer \in {"recipes", "comments"}
    /\ submitted \in SanitizerInputs
    /\ sanitized = <<>>
    /\ RaceIdle
    /\ ClientIdle

\* sanitizeString(input)
Sanitize ==
    /\ sanitized = <<>>
    /\ sanitized' = <<SanitizeOf(sanitizer, submitted)>>
    /\ UNCHANGED <<sanitizer, submitted, serverVars, raceVars, clientVars>>

\* the result submitted again: sanitizeString(sanitizeString(input))
SanitizeAgain ==
    /\ Len(sanitized) = 1
    /\ sanitized' = Append(sanitized, SanitizeOf(sanitizer, Str(sanitized[1])))
    /\ UNCHANGED <<sanitizer, submitted, serverVars, raceVars, clientVars>>

NextSanitizer == Sanitize \/ SanitizeAgain

SpecSanitizer == InitSanitizer /\ [][NextSanitizer]_vars

(***************************************************************************)
(* Requests served concurrently: addComment and deleteRecipe taken store   *)
(* call by store call, each `await` a point where other requests run.      *)
(***************************************************************************)
Slots == 1..MaxInFlight

\* a request awaiting a store call: `existed` tells whether the recipe it
\* names was in the store when the request read it, `id` is the comment the
\* request has added
Waiting(r, pc, existed, id) == [r |-> r, pc |-> pc, existed |-> existed, id |-> id]

NoWait == Waiting(NoRequest, "idle", FALSE, NoId)

\* the recipe `id` is in the store
Stored(id) == id \in DOMAIN recipes

\* comment POSTs for the two stored recipes, one that fails each check of
\* addComment, and the DELETEs of the two recipes
RaceRequests ==
    { CommentsPost(CommentBody(Str(id), AnnVal, OkVal)) : id \in StoredIds }
    \cup { CommentsPost(NoBody),
           CommentsPost(CommentBody(FirstRecipe, Undef, OkVal)),
           CommentsPost(CommentBody(Num(<<"7">>), AnnVal, OkVal)),
           CommentsPost(CommentBody(Str(<<" ", "r", "1">>), AnnVal, OkVal)),
           CommentsPost(CommentBody(FirstRecipe, AnnVal, Str(<<"<", ">">>))),
           CommentsPost(CommentBody(FirstRecipe, Str(<<"<", ">">>), OkVal)) }
    \cup { RecipesOther("DELETE", id) : id \in StoredIds }

\* the request of slot p is answered, and the slot is free again
Answered(p, r, fail, rsp) ==
    /\ req' = [r EXCEPT !.fail = fail]
    /\ resp' = rsp
    /\ pending' = [pending EXCEPT ![p] = NoWait]

\* addComment up to `await recipeRef.get()` and the test of its result
addCommentCheck(p, r) ==
    /\ pending[p].pc = "idle"
    /\ r.handler = "comments"
    /\ CommentsRoute(r.method) = "addComment"
    /\ \/ /\ r.body.t /= "object"
          /\ Answered(p, r, 0, Error(500, "Failed to add comment"))
       \/ /\ r.body.t = "object"
          /\ MissingCommentFields(r.body)
          /\ Answered(p, r, 0, Error(400, "Missing required fields"))
       \/ /\ r.body.t = "object"
          /\ ~MissingCommentFields(r.body)
          /\ ~IsDocumentPath(r.body.recipeId)
          /\ Answered(p, r, 0, Error(500, "Failed to add comment"))
       \/ /\ r.body.t = "object"
          /\ ~MissingCommentFields(r.body)
          /\ IsDocumentPath(r.body.recipeId)
          /\ \/ Answered(p, r, 1, Error(500, "Failed to add comment"))
             \/ /\ ~Exists(recipes, r.body.recipeId.s)
                /\ Answered(p, r, 0, Error(404, "Recipe not found"))
             \/ /\ Exists(recipes, r.body.recipeId.s)
                /\ pending' = [pending EXCEPT
                                 ![p] = Waiting(r, "checked",
                                                Stored(r.body.recipeId.s), NoId)]
                /\ UNCHANGED <<req, resp>>
    /\ UNCHANGED <<recipes, comments, usedRecipeIds, usedCommentIds, now, pre,
                   created, deleted, inserted>>

\* addComment from the sanitizing to `await db.collection('comments').add()`
addCommentInsert(p) ==
    /\ pending[p].pc = "checked"
    /\ \E r \in {pending[p].r} : \E newComment \in {NewComment(r.body, now)} :
          \/ /\ InvalidCommentLength(newComment)
             /\ Answered(p, r, 0, Error(400, "Invalid comment length"))
             /\ UNCHANGED <<comments, usedCommentIds, now, inserted>>
          \/ /\ ~InvalidCommentLength(newComment)
             /\ InvalidUsernameLength(newComment)
             /\ Answered(p, r, 0, Error(400, "Invalid username length"))
             /\ UNCHANGED <<comments, usedCommentIds, now, inserted>>
          \/ /\ ~InvalidCommentLength(newComment)
             /\ ~InvalidUsernameLength(newComment)
             /\ Answered(p, r, 2, Error(500, "Failed to add comment"))
             /\ UNCHANGED <<comments, usedCommentIds, now, inserted>>
          \/ /\ ~InvalidCommentLength(newComment)
             /\ ~InvalidUsernameLength(newComment)
             /\ usedCommentIds /= CommentIdPool
             /\ \E ts \in now..MaxTime :
                  LET id == NewId("c", usedCommentIds) IN
                  /\ comments' = Add(comments, id, [newComment EXCEPT !.createdAt = ts])
                  /\ usedCommentIds' = usedCommentIds \cup {id}
                  /\ now' = ts
                  /\ inserted' = (id :> [recipeId |-> r.body.recipeId.s,
                                         existed |-> pending[p].existed,
                                         exists |-> Stored(r.body.recipeId.s)])
                                  @@ inserted
                  /\ pending' = [pending EXCEPT ![p].pc = "added", ![p].id = id]
                  /\ UNCHANGED <<req, resp>>
    /\ UNCHANGED <<recipes, usedRecipeIds, pre, created, deleted>>

\* addComment from `await docRef.get()` to its response
addCommentReadBack(p) ==
    /\ pending[p].pc = "added"
    /\ \/ Answered(p, pending[p].r, 3, Error(500, "Failed to add comment"))
       \/ Answered(p, pending[p].r, 0,
                   Response(201, TRUE, "", <<Item(comments, pending[p].id)>>, <<>>))
    /\ UNCHANGED <<recipes, comments, usedRecipeIds, usedCommentIds, now, pre,
                   created, deleted, inserted>>

\* deleteRecipe up to `await recipeRef.get()` and the test of its result
deleteRecipeGet(p, r) ==
    /\ pending[p].pc = "idle"
    /\ r.handler = "recipes"
    /\ RecipesRoute(r.method, r.recent, r.seg) = "deleteRecipe"
    /\ \/ Answered(p, r, 1, Error(500, "Failed to delete recipe"))
       \/ /\ ~Exists(recipes, UrlRecipeId(r.seg))
          /\ Answered(p, r, 0, Error(404, "Recipe not found"))
       \/ /\ Exists(recipes, UrlRecipeId(r.seg))
          /\ pending' = [pending EXCEPT
                           ![p] = Waiting(r, "got", Stored(UrlRecipeId(r.seg)), NoId)]
          /\ UNCHANGED <<req, resp>>
    /\ UNCHANGED <<recipes, comments, usedRecipeIds, usedCommentIds, now, pre,
                   created, deleted, inserted>>

\* deleteRecipe from `await recipeRef.delete()` to its response
deleteRecipeDelete(p) ==
    /\ pending[p].pc = "got"
    /\ \E r \in {pending[p].r} :
          \/ /\ Answered(p, r, 2, Error(500, "Failed to delete recipe"))
             /\ UNCHANGED <<recipes, created, deleted>>
          \/ /\ recipes' = Remove(recipes, UrlRecipeId(r.seg))
             /\ created' = Remove(created, UrlRecipeId(r.seg))
             /\ deleted' = deleted \cup {UrlRecipeId(r.seg)}
             /\ Answered(p, r, 0, Response(200, TRUE, "", NoItem, <<>>))
    /\ UNCHANGED <<comments, usedRecipeIds, usedCommentIds, now, pre, inserted>>

\* the store of two recipes, some time after they were created
InitRace ==
    /\ recipes = [id \in StoredIds |->
                    NewRecipe(RecipeBody(PlainVal, Undef, PlainVal, PlainVal, Undef), 0)]
    /\ comments = <<>>
    /\ usedRecipeIds = StoredIds
    /\ usedCommentIds = {}
    /\ now = MaxTime
    /\ req = NoRequest
    /\ resp = Response(0, FALSE, "", NoItem, <<>>)
    /\ pre = [recipes |-> recipes, comments |-> <<>>]
    /\ created = recipes
    /\ deleted = {}
    /\ SanitizerIdle
    /\ ClientIdle
    /\ pending = [p \in Slots |-> NoWait]
    /\ inserted = <<>>

NextRace ==
    /\ \E p \in Slots :
          \/ \E r \in RaceRequests : addCommentCheck(p, r)
          \/ addCommentInsert(p)
          \/ addCommentReadBack(p)
          \/ \E r \in RaceRequests : deleteRecipeGet(p, r)
          \/ deleteRecipeDelete(p)
    /\ UNCHANGED <<sanitizerVars, clientVars>>

SpecRace == InitRace /\ [][NextRace]_vars

(***************************************************************************)
(* The client's recipe modal, src/app.js lines 534-711: every `await` of   *)
(* a fetch is a point where other calls and other responses run.           *)
(***************************************************************************)
\* a request in flight: `n` is the call of openRecipeModal it belongs to
Fetch(n, kind, recipeId) == [n |-> n, kind |-> kind, recipeId |-> recipeId]

\* the content of `recipe-detail`: the loading state, a recipe, or the error
\* message
Detail(state, recipeId) == [state |-> state, recipeId |-> recipeId]

\* a response as the client reads it
Arrival(kind, recipeId, ok, items) ==
    [kind |-> kind, recipeId |-> recipeId, ok |-> ok, items |-> items]

\* a comment of a response of GET /api/comments
ListedComment(id, recipeId, createdAt) ==
    [id |-> id,
     data |-> [recipeId |-> recipeId, username |-> AnnVal.s, comment |-> OkVal.s,
               createdAt |-> createdAt]]

\* the list GET /api/comments?recipeId= answers with: the first recipe has
\* two comments, listed newest first, and every other recipe has none
CommentList(recipeId) ==
    IF recipeId = FirstRecipe.s
    THEN <<ListedComment(<<"c", "2">>, recipeId, 1), ListedComment(<<"c", "1">>, recipeId, 0)>>
    ELSE <<>>

\* comments.sort((a, b) => new Date(b.createdAt) - new Date(a.createdAt))
RECURSIVE SortByCreatedAtDesc(_)
SortByCreatedAtDesc(list) ==
    IF list = <<>> THEN <<>>
    ELSE LET rest == SortByCreatedAtDesc(Tail(list))
             before == SelectSeq(rest, LAMBDA c : c.data.createdAt > Head(list).data.createdAt)
             after == SelectSeq(rest, LAMBDA c : c.data.createdAt <= Head(list).data.createdAt)
         IN before \o <<Head(list)>> \o after

\* a display that drops the recipe of a call that is no longer the current one
displayRecipeDetail_Current(recipe) ==
    IF recipe.id = currentRecipeId THEN Detail("recipe", recipe.id) ELSE recipeDetail

\* what displayRecipeDetail puts into `recipe-detail`
displayRecipeDetail(recipe) == Detail("recipe", recipe.id)

\* what displayComments puts into `comments-list`
displayComments(list) == SortByCreatedAtDesc(list)

\* openRecipeModal up to `await fetch(.../recipes/${recipeId})`
openRecipeModal(recipeId) ==
    /\ opened < MaxOpened
    /\ currentRecipeId' = recipeId
    /\ modalDisplay' = "flex"
    /\ recipeDetail' = Detail("loading", NoId)
    /\ fetches' = fetches \cup {Fetch(opened + 1, "recipe", recipeId)}
    /\ opened' = opened + 1
    /\ arrived' = NoArrival
    /\ UNCHANGED <<commentsList, noComments, commentsLoading>>

\* openRecipeModal from the response on: the detail is shown and
\* fetchComments runs up to its `await fetch(.../comments?recipeId=)`, or the
\* error message is shown
openRecipeModalResume(f) ==
    /\ f \in fetches
    /\ f.kind = "recipe"
    /\ \/ /\ recipeDetail' = displayRecipeDetail([id |-> f.recipeId])
          /\ commentsLoading' = TRUE
          /\ commentsList' = <<>>
          /\ noComments' = FALSE
          /\ fetches' = (fetches \ {f}) \cup {Fetch(f.n, "comments", f.recipeId)}
          /\ arrived' = Arrival("recipe", f.recipeId, TRUE, <<>>)
       \/ /\ recipeDetail' = Detail("error", NoId)
          /\ fetches' = fetches \ {f}
          /\ arrived' = Arrival("recipe", f.recipeId, FALSE, <<>>)
          /\ UNCHANGED <<commentsList, noComments, commentsLoading>>
    /\ UNCHANGED <<currentRecipeId, modalDisplay, opened>>

\* fetchComments from the response on
fetchCommentsResume(f) ==
    /\ f \in fetches
    /\ f.kind = "comments"
    /\ fetches' = fetches \ {f}
    /\ commentsLoading' = FALSE
    /\ \/ /\ noComments' = TRUE
          /\ arrived' = Arrival("comments", f.recipeId, FALSE, <<>>)
          /\ UNCHANGED commentsList
       \/ \E list \in {CommentList(f.recipeId)} :
            /\ arrived' = Arrival("comments", f.recipeId, TRUE, list)
            /\ IF Len(list) = 0
               THEN noComments' = TRUE /\ UNCHANGED commentsList
               ELSE commentsList' = displayComments(list) /\ UNCHANGED noComments
    /\ UNCHANGED <<currentRecipeId, modalDisplay, recipeDetail, opened>>

closeRecipeModal ==
    /\ modalDisplay' = "none"
    /\ currentRecipeId' = NoId
    /\ UNCHANGED <<recipeDetail, commentsList, noComments, commentsLoading, fetches,
                   opened, arrived>>

InitModal ==
    /\ ServerIdle
    /\ SanitizerIdle
    /\ RaceIdle
    /\ ClientIdle

NextModal ==
    /\ \/ \E recipeId \in StoredIds : openRecipeModal(recipeId)
       \/ \E f \in fetches : openRecipeModalResume(f)
       \/ \E f \in fetches : fetchCommentsResume(f)
       \/ closeRecipeModal
    /\ UNCHANGED <<serverVars, sanitizerVars, raceVars, debounceVars, searchVars, submitVars>>

SpecModal == InitModal /\ [][NextModal]_vars

(***************************************************************************)
(* The comment form of the modal, src/app.js lines 733-791, with the modal *)
(* opened and closed while its POST is in flight.                          *)
(***************************************************************************)
\* a comment POST in flight: `k` is the call of handleCommentSubmit it
\* belongs to, `recipeId` the recipeId of its body
Post(k, recipeId) == [k |-> k, recipeId |-> recipeId]

\* `${recipeId}` in the URL of fetchComments: null gives the text "null"
UrlText(recipeId) == IF recipeId = NoId THEN <<"n", "u", "l", "l">> ELSE recipeId

\* handleCommentSubmit, the form filled in, up to `await fetch(.../comments)`
handleCommentSubmit ==
    /\ posted < MaxPosted
    /\ Cardinality(fetches) + Cardinality(posts) < MaxInFlight
    /\ currentRecipeId /= NoId
    /\ posts' = posts \cup {Post(posted + 1, currentRecipeId)}
    /\ posted' = posted + 1
    /\ UNCHANGED <<refreshed, modalVars>>

\* handleCommentSubmit from the response of the POST on: when the response
\* is ok, fetchComments(currentRecipeId) runs up to its `await fetch`;
\* otherwise the failure is notified
handleCommentSubmitResume(p) ==
    /\ p \in posts
    /\ posts' = posts \ {p}
    /\ \/ /\ commentsLoading' = TRUE
          /\ commentsList' = <<>>
          /\ noComments' = FALSE
          /\ fetches' = fetches \cup {Fetch(0 - p.k, "comments", UrlText(currentRecipeId))}
          /\ arrived' = NoArrival
          /\ refreshed' = [posted |-> p.recipeId, fetched |-> UrlText(currentRecipeId)]
          /\ UNCHANGED <<currentRecipeId, modalDisplay, recipeDetail, opened>>
       \/ UNCHANGED <<refreshed, modalVars>>
    /\ UNCHANGED posted

InitSubmit ==
    /\ ServerIdle
    /\ SanitizerIdle
    /\ RaceIdle
    /\ ClientIdle

\* the modal and its comment form, with at most MaxInFlight requests of the
\* client in flight
NextSubmit ==
    /\ \/ /\ \/ /\ Cardinality(fetches) + Cardinality(posts) < MaxInFlight
                   /\ \E recipeId \in StoredIds : openRecipeModal(recipeId)
             \/ \E f \in fetches : openRecipeModalResume(f)
             \/ \E f \in fetches : fetchCommentsResume(f)
             \/ closeRecipeModal
          /\ UNCHANGED submitVars
       \/ handleCommentSubmit
       \/ \E p \in posts : handleCommentSubmitResume(p)
    /\ UNCHANGED <<serverVars, sanitizerVars, raceVars, debounceVars, searchVars>>

SpecSubmit == InitSubmit /\ [][NextSubmit]_vars

(***************************************************************************)
(* The search input of the client: debounce(performSearch, 300),           *)
(* src/app.js lines 434-460.                                               *)
(***************************************************************************)
\* a pending timer: its id and the time from which it may fire
Timer(id, due) == [id |-> id, due |-> due]

\* a clearTimeout that clears nothing
clearTimeout_Nothing(timerSet, id) == timerSet

\* clearTimeout(id) on the pending timers; an id that names no pending timer
\* (undefined, or a timer that has fired) clears nothing
clearTimeout(timerSet, id) == { t \in timerSet : t.id /= id }

\* setTimeout(later, wait) on the pending timers, giving the timer the id `id`
setTimeout(timerSet, id, wait) == timerSet \cup {Timer(id, clock + wait)}

\* the rest of the model stands still
SearchOnly ==
    UNCHANGED <<serverVars, sanitizerVars, raceVars, modalVars, searchVars, submitVars>>

\* an input event: executedFunction clears the timer `timeout` names and sets
\* a new one
executedFunction ==
    /\ typed < MaxTyped
    /\ clock + SearchWait <= MaxClock
    /\ timers' = setTimeout(clearTimeout(timers, timeout), typed + 1, SearchWait)
    /\ timeout' = typed + 1
    /\ typed' = typed + 1
    /\ lastInput' = clock
    /\ searched' = 0
    /\ UNCHANGED <<clock, lastSearch>>
    /\ SearchOnly

\* a timer fires, no earlier than it is due: `later` clears the timer
\* `timeout` names and runs performSearch
later(t) ==
    /\ t \in timers
    /\ clock >= t.due
    /\ timers' = clearTimeout(timers \ {t}, timeout)
    /\ searched' = searched + 1
    /\ lastSearch' = clock
    /\ UNCHANGED <<clock, timeout, typed, lastInput>>
    /\ SearchOnly

\* time passes
Tick ==
    /\ clock < MaxClock
    /\ clock' = IF clock + TickMs <= MaxClock THEN clock + TickMs ELSE MaxClock
    /\ UNCHANGED <<timers, timeout, typed, lastInput, searched, lastSearch>>
    /\ SearchOnly

TimerFires == \E t \in timers : later(t)

InitDebounce ==
    /\ ServerIdle
    /\ SanitizerIdle
    /\ RaceIdle
    /\ ClientIdle

NextDebounce == executedFunction \/ TimerFires \/ Tick

\* time passes, and the event loop runs a timer that is due
SpecDebounce ==
    InitDebounce /\ [][NextDebounce]_vars /\ WF_vars(Tick) /\ WF_vars(TimerFires)

(***************************************************************************)
(* addComment over recipe ids that sanitizeString changes.                 *)
(***************************************************************************)
\* the values of `recipeId` a request may carry: the ids of the stored
\* recipes, the first of them with a space before or after it, in angle
\* brackets or with one inside, an id longer than the sanitizer's limit, and
\* a number
RawRecipeIds ==
    { Str(id) : id \in StoredIds }
    \cup { Str(<<" ", "r", "1">>), Str(<<"r", "1", " ">>), Str(<<"<", "r", "1", ">">>),
           Str(<<"r", "<", "1">>), Str(Rep("r", CommentMaxLen + 1)), Num(<<"1">>) }

\* comment POSTs and GETs for every such value, and the deletion of a stored
\* recipe
RawIdRequests ==
    { CommentsPost(CommentBody(i, AnnVal, OkVal)) : i \in RawRecipeIds }
    \cup { CommentsGet(i) : i \in RawRecipeIds }
    \cup { RecipesOther("DELETE", id) : id \in StoredIds }

NextRawIds ==
    /\ \E r \in RawIdRequests :
          \/ r.handler = "recipes" /\ RecipesHandler(r)
          \/ r.handler = "comments" /\ CommentsHandler(r)
    /\ UNCHANGED <<sanitizerVars, raceVars, clientVars>>

SpecRawIds == InitComments /\ [][NextRawIds]_vars

(***************************************************************************)
(* The recipes listing and its search form, src/app.js lines 349-525.      *)
(***************************************************************************)
\* the lower-case letter of a letter of the model, any other character kept
LowerChar(c) == IF c = "A" THEN "a" ELSE IF c = "B" THEN "b" ELSE c

\* a toLowerCase that keeps the case
toLowerCase_Keep(s) == s

\* String.prototype.toLowerCase
toLowerCase(s) == [i \in DOMAIN s |-> LowerChar(s[i])]

\* String.prototype.includes
includes(s, term) ==
    \E i \in 0..(Len(s) - Len(term)) : SubSeq(s, i + 1, i + Len(term)) = term

Dessert == <<"d", "e", "s", "s", "e", "r", "t">>

\* the bodies the listed recipes were created from, four kinds in turn: a
\* name in mixed case, ingredients with a space and no category, instructions
\* in mixed case, and a name that createRecipe stores empty with a category
\* written with a capital
ListedBody(i) ==
    CASE i % 4 = 1 -> RecipeBody(Str(<<"A", "b">>), Str(Dessert), Str(<<"b">>),
                                 Str(<<"b">>), Undef)
      [] i % 4 = 2 -> RecipeBody(Str(<<"b">>), Undef, Str(<<"a", " ", "b">>),
                                 Str(<<"b">>), Undef)
      [] i % 4 = 3 -> RecipeBody(Str(<<"b">>), Str(Dessert), Str(<<"b">>),
                                 Str(<<"b", "A">>), Undef)
      [] OTHER -> RecipeBody(Str(<<"<", ">">>), Str(<<"D">> \o Tail(Dessert)),
                             Str(<<"b">>), Str(<<"b">>), Undef)

\* the i-th recipe of the response of GET /api/recipes
ListedRecipe(i) == [id |-> <<"r", Digits[i]>>, data |-> NewRecipe(ListedBody(i), 0)]

\* data.recipes of the response: the first n recipes
LoadedLists == { [i \in 1..n |-> ListedRecipe(i)] : n \in 0..MaxListed }

\* the texts typed into the search input
TermAlphabet == {"a", "A", "b", " "}
SearchTerms == UNION { [1..n -> TermAlphabet] : n \in 0..MaxTermLen }

\* the values of the options of the category filter, "" for all categories
Categories == {<<>>, Dessert, Uncategorized}

\* the rest of the model stands still
ListingOnly ==
    UNCHANGED <<serverVars, sanitizerVars, raceVars, modalVars, debounceVars, submitVars>>

\* displayRecipes: the cards of the recipes of `list`, or the empty state
displayRecipes(list) ==
    /\ recipesContainer' = list
    /\ recipesEmpty' = (Len(list) = 0)

\* fetchAllRecipes up to `await fetch(.../recipes)`, called as the page loads
fetchAllRecipes ==
    /\ ran = "none"
    /\ recipesLoading' = TRUE
    /\ recipesContainer' = <<>>
    /\ ran' = "fetchAllRecipes"
    /\ UNCHANGED <<allRecipes, searchInput, categoryFilter, recipesEmpty>>
    /\ ListingOnly

\* fetchAllRecipes from the response on: the list is kept and shown, or the
\* error message is
fetchAllRecipesResume ==
    /\ recipesLoading
    /\ recipesLoading' = FALSE
    /\ ran' = "fetchAllRecipes"
    /\ \/ \E list \in LoadedLists :
            /\ allRecipes' = list
            /\ IF Len(list) = 0
               THEN recipesEmpty' = TRUE /\ UNCHANGED recipesContainer
               ELSE displayRecipes(list)
       \/ /\ recipesContainer' = <<>>
          /\ UNCHANGED <<allRecipes, recipesEmpty>>
    /\ UNCHANGED <<searchInput, categoryFilter>>
    /\ ListingOnly

\* performSearch, reading `value` from the search input and `category` from
\* the category filter
performSearch(value, category) ==
    LET searchTerm == Trim(toLowerCase(value))
        selectedCategory == category
        byCategory ==
            IF selectedCategory /= <<>>
            THEN SelectSeq(allRecipes, LAMBDA recipe : recipe.data.category = selectedCategory)
            ELSE allRecipes
        filteredRecipes ==
            IF searchTerm /= <<>>
            THEN SelectSeq(byCategory, LAMBDA recipe :
                    \/ includes(toLowerCase(recipe.data.name), searchTerm)
                    \/ /\ recipe.data.ingredients /= <<>>
                       /\ includes(toLowerCase(recipe.data.ingredients), searchTerm)
                    \/ /\ recipe.data.instructions /= <<>>
                       /\ includes(toLowerCase(recipe.data.instructions), searchTerm))
            ELSE byCategory
    IN /\ displayRecipes(filteredRecipes)
       /\ UNCHANGED <<allRecipes, recipesLoading>>

\* text is typed into the search input: the debounced listener sets its timer
inputSearch(value) ==
    /\ searchInput' = value
    /\ ran' = "input"
    /\ UNCHANGED <<allRecipes, categoryFilter, recipesContainer, recipesEmpty, recipesLoading>>
    /\ ListingOnly

\* the timer of the debounced listener fires
debouncedSearch ==
    /\ ran = "input"
    /\ performSearch(searchInput, categoryFilter)
    /\ ran' = "performSearch"
    /\ UNCHANGED <<searchInput, categoryFilter>>
    /\ ListingOnly

\* a category is selected: the `change` listener is performSearch
changeCategory(category) ==
    /\ categoryFilter' = category
    /\ performSearch(searchInput, category)
    /\ ran' = "performSearch"
    /\ UNCHANGED searchInput
    /\ ListingOnly

clearSearch ==
    /\ searchInput' = <<>>
    /\ categoryFilter' = <<>>
    /\ performSearch(<<>>, <<>>)
    /\ ran' = "clearSearch"
    /\ ListingOnly

InitSearch ==
    /\ ServerIdle
    /\ SanitizerIdle
    /\ RaceIdle
    /\ ClientIdle

NextSearch ==
    \/ fetchAllRecipes
    \/ fetchAllRecipesResume
    \/ \E value \in SearchTerms : inputSearch(value)
    \/ debouncedSearch
    \/ \E category \in Categories : changeCategory(category)
    \/ clearSearch

SpecSearch == InitSearch /\ [][NextSearch]_vars

(***************************************************************************)
(* The claims.                                                             *)
(***************************************************************************)
\* the request served last went to `handler` with `method`
ServedBy(handler, method) == req.handler = handler /\ req.method = method

\* no store call of the request served last failed
StoreWorked == req.fail = 0

\* a field a request leaves out or gives as the empty string
EmptyOrAbsent(v) == v.t \in {"undefined", "null"} \/ (v.t = "string" /\ v.s = <<>>)

\* the store is as it was when the request arrived
SameStore == recipes = pre.recipes /\ comments = pre.comments

\* C1: every persisted recipe has a non-empty name, non-empty ingredients and
\* non-empty instructions, as stored.
C1_PersistedRecipesNonEmpty ==
    \A id \in DOMAIN recipes :
        /\ recipes[id].name /= <<>>
        /\ recipes[id].ingredients /= <<>>
        /\ recipes[id].instructions /= <<>>

\* C2: a recipe POST whose body has name, ingredients or instructions empty
\* or absent is answered 400 and inserts nothing.
C2_MissingRequiredIs400 ==
    ( /\ ServedBy("recipes", "POST")
      /\ req.body.t = "object"
      /\ \/ EmptyOrAbsent(req.body.name)
         \/ EmptyOrAbsent(req.body.ingredients)
         \/ EmptyOrAbsent(req.body.instructions) )
    => resp.status = 400 /\ SameStore

\* a POST with only the ingredients empty has been answered 400
C2_Witness ==
    /\ ServedBy("recipes", "POST")
    /\ req.body.t = "object"
    /\ req.body.name = PlainVal
    /\ req.body.ingredients = Str(<<>>)
    /\ resp.status = 400
    /\ DOMAIN pre.recipes /= {}

\* the request served last creates or deletes a document
IsWrite ==
    \/ ServedBy("recipes", "POST")
    \/ ServedBy("recipes", "DELETE") /\ UrlRecipeId(req.seg) /= NoId
    \/ ServedBy("comments", "POST")

\* C3: a create or delete either answers a success status with its change
\* persisted, or answers an error status with the store as it was.
C3_NoPartialSuccess ==
    IsWrite =>
        \/ resp.status \in {200, 201} /\ ~SameStore
        \/ resp.status >= 400 /\ SameStore


\* the request served last is GET /api/recipes/{id}
IsGetById ==
    ServedBy("recipes", "GET") /\ req.recent.t = "undefined" /\ req.seg \in RecipeIdPool

\* the request served last is a list request: GET /api/recipes, with or
\* without `recent`
IsList ==
    ServedBy("recipes", "GET") /\ (req.recent.t /= "undefined" \/ req.seg = RecipesSeg)

\* C7: after a POST answered 201 with id I and no DELETE of I since, GET
\* /api/recipes/I is answered 200 with the name, ingredients and instructions
\* of the created record.
C7_RoundTrip ==
    (IsGetById /\ StoreWorked /\ req.seg \in DOMAIN created) =>
        /\ resp.status = 200
        /\ Len(resp.item) = 1
        /\ resp.item[1].id = req.seg
        /\ resp.item[1].data.name = created[req.seg].name
        /\ resp.item[1].data.ingredients = created[req.seg].ingredients
        /\ resp.item[1].data.instructions = created[req.seg].instructions

\* a created recipe has been fetched after other requests were served
C7_Witness ==
    /\ IsGetById
    /\ req.seg \in DOMAIN created
    /\ resp.status = 200
    /\ resp.item[1].data.name = <<"a">>
    /\ deleted /= {}

\* the ids of a list response
ListedIds == { resp.items[i].id : i \in DOMAIN resp.items }

\* C9: GET /api/recipes?recent=N returns at most N recipes by createdAt
\* descending, each at least as new as every recipe not returned.
C9_RecentNewestFirst ==
    (ServedBy("recipes", "GET") /\ req.recent.t = "string" /\ StoreWorked) =>
        /\ resp.status = 200
        /\ Len(resp.items) <= ParseInt(req.recent)
        /\ Cardinality(ListedIds) = Len(resp.items)
        /\ ListedIds \subseteq DOMAIN recipes
        /\ \A i \in DOMAIN resp.items : resp.items[i].data = recipes[resp.items[i].id]
        /\ \A i, j \in DOMAIN resp.items :
              i < j => resp.items[i].data.createdAt >= resp.items[j].data.createdAt
        /\ \A i \in DOMAIN resp.items : \A k \in (DOMAIN recipes) \ ListedIds :
              resp.items[i].data.createdAt >= recipes[k].createdAt

\* recent=1 has returned the newer of two recipes
C9_Witness ==
    /\ ServedBy("recipes", "GET")
    /\ req.recent = Str(<<"1">>)
    /\ Len(resp.items) = 1
    /\ \E k \in DOMAIN recipes : recipes[k].createdAt < resp.items[1].data.createdAt

\* C10: DELETE /api/recipes/{id} is answered 404 with the store unchanged when
\* no such recipe exists; otherwise 200 with the recipe removed, every later
\* GET of it answered 404 and no list response holding it.
C10_Delete ==
    /\ (ServedBy("recipes", "DELETE") /\ req.seg \in RecipeIdPool /\ StoreWorked) =>
          IF req.seg \in DOMAIN pre.recipes
          THEN /\ resp.status = 200
               /\ req.seg \in deleted
               /\ DOMAIN recipes = (DOMAIN pre.recipes) \ {req.seg}
               /\ \A k \in DOMAIN recipes : recipes[k] = pre.recipes[k]
          ELSE resp.status = 404 /\ SameStore
    /\ deleted \cap DOMAIN recipes = {}
    /\ (IsGetById /\ StoreWorked /\ req.seg \in deleted) => resp.status = 404
    /\ (IsList /\ StoreWorked) => ListedIds \cap deleted = {}

\* a deleted recipe has been asked for again, with another one still stored
C10_Witness ==
    /\ IsGetById
    /\ req.seg \in deleted
    /\ resp.status = 404
    /\ DOMAIN recipes /= {}


\* the request served last is a comment POST with a body whose recipeId is a
\* non-empty string
IsCommentPost ==
    /\ ServedBy("comments", "POST")
    /\ req.body.t = "object"
    /\ req.body.recipeId.t = "string"
    /\ req.body.recipeId.s /= <<>>

\* the recipe the comment POST names existed when the request arrived
NamedRecipeExisted == req.body.recipeId.s \in DOMAIN pre.recipes

\* the length of a field as submitted
SubmittedLen(v) == IF v.t = "string" THEN Len(v.s) ELSE 0

\* C4, as claimed: a comment POST naming no existing recipe is answered 404
\* whatever the lengths of username and comment, and inserts nothing.
C4_MissingRecipeIs404 ==
    (IsCommentPost /\ StoreWorked /\ ~NamedRecipeExisted) =>
        resp.status = 404 /\ SameStore

\* C4, amended: a comment POST naming no existing recipe inserts nothing; it is
\* answered 404 whatever the lengths of username and comment are, those that
\* sanitize to length 0 and those over the limits included, when both are
\* submitted non-empty, and 400 when one of them is absent or empty.
C4_MissingRecipeIs404IfFieldsGiven ==
    (IsCommentPost /\ StoreWorked /\ ~NamedRecipeExisted) =>
        /\ SameStore
        /\ resp.status =
              IF SubmittedLen(req.body.username) > 0 /\ SubmittedLen(req.body.comment) > 0
              THEN 404 ELSE 400

\* a POST naming a deleted recipe, with a username over the limit, has been
\* answered 404
C4_Witness ==
    /\ IsCommentPost
    /\ ~NamedRecipeExisted
    /\ req.body.recipeId.s \in deleted
    /\ SubmittedLen(req.body.username) > UsernameMaxLen
    /\ resp.status = 404

\* C5: a comment POST against an existing recipe is answered 400 and inserts
\* nothing when the submitted username has length 0 or over 100, or the
\* submitted comment has length 0 or over 1000.
C5_OutOfRangeIs400 ==
    ( /\ IsCommentPost /\ StoreWorked /\ NamedRecipeExisted
      /\ \/ SubmittedLen(req.body.username) = 0
         \/ SubmittedLen(req.body.username) > UsernameMaxLen
         \/ SubmittedLen(req.body.comment) = 0
         \/ SubmittedLen(req.body.comment) > CommentMaxLen )
    => resp.status = 400 /\ SameStore

\* C6: every persisted comment has a username of 1 to 100 characters and a
\* comment of 1 to 1000 characters.
C6_PersistedCommentLengths ==
    \A id \in DOMAIN comments :
        /\ Len(comments[id].username) \in 1..UsernameMaxLen
        /\ Len(comments[id].comment) \in 1..CommentMaxLen

\* a comment of exactly 1000 characters has been posted and is persisted
C6_Witness ==
    /\ IsCommentPost
    /\ resp.status = 201
    /\ SubmittedLen(req.body.comment) = CommentMaxLen
    /\ \E id \in DOMAIN comments : Len(comments[id].comment) = CommentMaxLen

\* the ids of the persisted comments of a recipe
CommentsOf(recipeId) == { k \in DOMAIN comments : comments[k].recipeId = recipeId }

\* C8: a comment POST answered 201 for recipe R persists the comment under R,
\* no request removes or changes a persisted comment, and GET
\* /api/comments?recipeId=R returns exactly the persisted comments of R, each
\* once, with `count` the length of the list.
C8_PostedCommentsListed ==
    /\ (IsCommentPost /\ resp.status = 201) =>
          /\ Len(resp.item) = 1
          /\ resp.item[1].id \in CommentsOf(req.body.recipeId.s) \ DOMAIN pre.comments
          /\ resp.item[1].data = comments[resp.item[1].id]
          /\ NamedRecipeExisted
    /\ \A k \in DOMAIN pre.comments : k \in DOMAIN comments /\ comments[k] = pre.comments[k]
    /\ (ServedBy("comments", "GET") /\ req.recipeId.t = "string" /\ StoreWorked) =>
          /\ resp.status = 200
          /\ ListedIds = CommentsOf(req.recipeId.s)
          /\ Len(resp.items) = Cardinality(ListedIds)
          /\ \A i \in DOMAIN resp.items : resp.items[i].data = comments[resp.items[i].id]
          /\ resp.count = Len(resp.items)

\* the comment posted for a recipe has been listed for it
C8_Witness ==
    /\ ServedBy("comments", "GET")
    /\ resp.status = 200
    /\ Len(resp.items) = 1
    /\ resp.items[1].data.recipeId = req.recipeId.s
    /\ resp.count = 1

\* the request served last is a DELETE of a recipe id answered 200
IsDeleted == ServedBy("recipes", "DELETE") /\ req.seg \in RecipeIdPool /\ resp.status = 200

\* C11: a DELETE of recipe R answered 200 leaves the comments collection as it
\* was and every other recipe unchanged, and GET /api/comments?recipeId=R
\* still returns the comments persisted for R after R is deleted.
C11_DeleteDoesNotCascade ==
    /\ IsDeleted =>
          /\ comments = pre.comments
          /\ DOMAIN recipes = (DOMAIN pre.recipes) \ {req.seg}
          /\ \A k \in DOMAIN recipes : recipes[k] = pre.recipes[k]
    /\ (ServedBy("comments", "GET") /\ StoreWorked /\ req.recipeId.s \in deleted) =>
          /\ resp.status = 200
          /\ ListedIds = CommentsOf(req.recipeId.s)
          /\ \A i \in DOMAIN resp.items : resp.items[i].data = comments[resp.items[i].id]

\* the comment of a deleted recipe has been listed, with the other recipe
\* still stored
C11_Witness ==
    /\ ServedBy("comments", "GET")
    /\ req.recipeId.s \in deleted
    /\ Len(resp.items) = 1
    /\ resp.items[1].data.recipeId = req.recipeId.s
    /\ DOMAIN recipes /= {}

\* C12: every response of the two handlers, the answer to OPTIONS included,
\* carries the CORS headers.
C12_EveryResponseHasCors ==
    req.handler \in {"recipes", "comments"} => resp.cors

\* the request served last has a method its endpoint does not support
IsUnsupported ==
    \/ /\ req.handler = "recipes"
       /\ req.method \notin {"GET", "POST", "OPTIONS"}
       /\ ~(req.method = "DELETE" /\ req.seg \in RecipeIdPool)
    \/ /\ req.handler = "comments"
       /\ req.method \notin {"GET", "POST", "OPTIONS"}

\* C13: a request with an unsupported method is answered 405 with an error
\* string and a list of allowed methods; the store is as it was, and the
\* answer depends on no store call (none can fail and turn it into a 500).
C13_UnsupportedIs405 ==
    IsUnsupported =>
        /\ resp.status = 405
        /\ resp.error /= ""
        /\ resp.allowedMethods /= <<>>
        /\ req.fail = 0
        /\ SameStore

\* a DELETE of /api/recipes without an id has been answered 405 with recipes
\* and a comment in the store
C13_Witness ==
    /\ ServedBy("recipes", "DELETE")
    /\ req.seg = RecipesSeg
    /\ resp.status = 405
    /\ DOMAIN recipes /= {}
    /\ DOMAIN comments /= {}

\* sanitizeString has been called with a string
SanitizedString == submitted.t = "string" /\ Len(sanitized) >= 1

\* C14: for every string, the result of sanitizeString holds no `<` and no `>`
\* and is at most as long as the handler's limit.
C14_NoBracketsWithinLimit ==
    SanitizedString =>
        /\ \A i \in DOMAIN sanitized[1] : sanitized[1][i] \notin {"<", ">"}
        /\ Len(sanitized[1]) <= LimitOf(sanitizer)

\* a string over the limit that holds a bracket has been cut to the limit
C14_Witness ==
    /\ SanitizedString
    /\ Len(submitted.s) > LimitOf(sanitizer)
    /\ \E i \in DOMAIN submitted.s : submitted.s[i] = "<"
    /\ Len(sanitized[1]) = LimitOf(sanitizer)

\* C15: for every string, sanitizing the result again gives the same result.
C15_Idempotent ==
    (submitted.t = "string" /\ Len(sanitized) = 2) => sanitized[2] = sanitized[1]

\* C16: for every input that is absent or not a string, the result is the
\* empty string.
C16_NonStringIsEmpty ==
    (submitted.t /= "string" /\ Len(sanitized) >= 1) => sanitized[1] = <<>>

\* the request served last is a recipe POST whose body gives name, ingredients
\* and instructions
IsCompleteRecipePost ==
    /\ ServedBy("recipes", "POST")
    /\ req.body.t = "object"
    /\ ~EmptyOrAbsent(req.body.name)
    /\ ~EmptyOrAbsent(req.body.ingredients)
    /\ ~EmptyOrAbsent(req.body.instructions)

\* C17: a recipe POST giving name, ingredients and instructions is answered
\* 201 with a non-empty id that no recipe stored before or deleted before
\* had; a category left out is persisted and returned as "uncategorized",
\* and prepTime, cookTime and notes left out as the empty string.
C17_CreatedWithDefaults ==
    (IsCompleteRecipePost /\ StoreWorked) =>
        /\ resp.status = 201
        /\ Len(resp.item) = 1
        /\ resp.item[1].id /= NoId
        /\ resp.item[1].id \notin (DOMAIN pre.recipes) \cup deleted
        /\ resp.item[1].id \in DOMAIN recipes
        /\ resp.item[1].data = recipes[resp.item[1].id]
        /\ \A k \in DOMAIN pre.recipes : k \in DOMAIN recipes /\ recipes[k] = pre.recipes[k]
        /\ req.body.category.t = "undefined" =>
              recipes[resp.item[1].id].category = Uncategorized
        /\ req.body.prepTime.t = "undefined" => recipes[resp.item[1].id].prepTime = <<>>
        /\ req.body.cookTime.t = "undefined" => recipes[resp.item[1].id].cookTime = <<>>
        /\ req.body.notes.t = "undefined" => recipes[resp.item[1].id].notes = <<>>

\* a recipe has been created without a category next to a stored one
C17_Witness ==
    /\ IsCompleteRecipePost
    /\ resp.status = 201
    /\ req.body.category.t = "undefined"
    /\ resp.item[1].data.category = Uncategorized
    /\ DOMAIN pre.recipes /= {}
    /\ resp.item[1].id \notin DOMAIN pre.recipes

\* C18, as claimed: under every interleaving of comment POSTs and recipe
\* DELETEs, a comment is inserted only when the recipe it names is in the
\* store at the moment of the insert.
C18_RecipeExistsAtInsert ==
    \A c \in DOMAIN inserted : inserted[c].exists

\* C18, amended: under every interleaving, a comment is inserted only by a
\* request whose existence check found the recipe it names in the store; a
\* request waits between its check and its insert only after such a check.
C18_RecipeExistedAtCheck ==
    /\ \A c \in DOMAIN inserted :
          /\ inserted[c].existed
          /\ c \in DOMAIN comments
          /\ comments[c].recipeId = inserted[c].recipeId
    /\ \A p \in DOMAIN pending :
          pending[p].pc \in {"checked", "added"} => pending[p].existed

\* a comment has been inserted for a recipe deleted between the check and the
\* insert of its request
C18_Witness ==
    \E c \in DOMAIN inserted :
        /\ inserted[c].existed
        /\ ~inserted[c].exists
        /\ inserted[c].recipeId \in deleted
        /\ comments[c].recipeId = inserted[c].recipeId

\* C19, as claimed: no request is cancelled, and the response that arrives
\* last is the one rendered: a recipe response puts its recipe into the detail
\* and a comments response puts its comments into the list, whatever
\* currentRecipeId is by then.
C19_LastArrivedIsRendered ==
    /\ (arrived.kind = "recipe" /\ arrived.ok) =>
          recipeDetail = Detail("recipe", arrived.recipeId)
    /\ (arrived.kind = "comments" /\ arrived.ok) =>
          /\ Len(commentsList) = Len(arrived.items)
          /\ \A i \in DOMAIN commentsList : commentsList[i].data.recipeId = arrived.recipeId

\* C19, amended: the recipe response that arrives last is the one rendered in
\* the detail, and the comments response that arrives last is the one rendered
\* in the list when it holds a comment, whatever currentRecipeId is by then;
\* a comments response without comments, or a failed one, shows the
\* `no-comments` notice.
C19_LastArrivedIsRenderedUnlessEmpty ==
    /\ (arrived.kind = "recipe" /\ arrived.ok) =>
          recipeDetail = Detail("recipe", arrived.recipeId)
    /\ (arrived.kind = "recipe" /\ ~arrived.ok) =>
          recipeDetail = Detail("error", NoId)
    /\ (arrived.kind = "comments" /\ arrived.ok /\ arrived.items /= <<>>) =>
          commentsList = arrived.items
    /\ (arrived.kind = "comments" /\ (~arrived.ok \/ arrived.items = <<>>)) =>
          noComments

\* the comments of the first recipe have arrived after the second recipe was
\* opened and are listed, under the detail of the first recipe, while
\* currentRecipeId is the second
C19_Witness ==
    /\ currentRecipeId = <<"r", "2">>
    /\ arrived.kind = "comments"
    /\ arrived.recipeId = <<"r", "1">>
    /\ recipeDetail = Detail("recipe", <<"r", "1">>)
    /\ Len(commentsList) = 2
    /\ \A i \in DOMAIN commentsList : commentsList[i].data.recipeId = <<"r", "1">>

\* performSearch has run only after SearchWait without an input event, at
\* most once since the latest one, and at most one timer is pending
C20_Safety ==
    /\ searched >= 1 => lastSearch >= lastInput + SearchWait
    /\ searched <= 1
    /\ Cardinality(timers) <= 1

\* C20: performSearch runs only when 300ms have passed with no input event
\* since the latest one, at most one timer is pending at any time, and every
\* burst of input events is eventually followed by exactly one run.
C20_Debounce ==
    /\ []C20_Safety
    /\ (lastInput >= 0 /\ searched = 0) ~> (searched = 1)

\* performSearch has run once, later than due, after a burst of three input
\* events
C20_Witness ==
    /\ typed = 3
    /\ searched = 1
    /\ lastSearch > lastInput + SearchWait
    /\ lastInput > 0
    /\ timers = {}

\* `s` contains `term` as a substring, the case of the letters ignored
ContainsIgnoringCase(s, term) ==
    \E i \in 0..(Len(s) - Len(term)) :
        \A k \in 1..Len(term) : LowerChar(s[i + k]) = LowerChar(term[k])

\* the recipe is of the selected category, when one is selected, and its
\* name, ingredients or instructions contain the trimmed term, when that is
\* not empty
Matches(recipe, value, category) ==
    /\ category /= <<>> => recipe.data.category = category
    /\ Trim(value) /= <<>> =>
          \E field \in {recipe.data.name, recipe.data.ingredients, recipe.data.instructions} :
              ContainsIgnoringCase(field, Trim(value))

\* after performSearch the page shows the matching recipes of allRecipes, in
\* the order of allRecipes, and after clearSearch the whole list
C21_Shown ==
    /\ ran \in {"performSearch", "clearSearch"} =>
          recipesContainer =
              SelectSeq(allRecipes, LAMBDA recipe : Matches(recipe, searchInput, categoryFilter))
    /\ ran = "clearSearch" =>
          /\ searchInput = <<>>
          /\ categoryFilter = <<>>
          /\ recipesContainer = allRecipes

\* a run of performSearch or clearSearch leaves allRecipes as it was
C21_KeepsAllRecipes ==
    ran' \in {"performSearch", "clearSearch"} => allRecipes' = allRecipes

\* C21: performSearch shows exactly the recipes of allRecipes whose category
\* equals the selected category (when one is selected) and whose name,
\* ingredients or instructions contain the trimmed lower-cased search term,
\* case ignored (when the term is not empty); it never changes allRecipes,
\* and clearing the term and the category shows the whole list again.
C21_Search ==
    /\ []C21_Shown
    /\ [][C21_KeepsAllRecipes]_vars

\* of at least three loaded recipes, a search with no category selected shows
\* exactly one, which has the term (in another case) in its instructions and
\* neither in its name nor in its ingredients
C21_Witness ==
    /\ ran = "performSearch"
    /\ Len(allRecipes) >= 3
    /\ categoryFilter = <<>>
    /\ Len(searchInput) = 2
    /\ Len(recipesContainer) = 1
    /\ ContainsIgnoringCase(recipesContainer[1].data.instructions, searchInput)
    /\ ~includes(recipesContainer[1].data.instructions, searchInput)
    /\ ~ContainsIgnoringCase(recipesContainer[1].data.name, searchInput)
    /\ ~ContainsIgnoringCase(recipesContainer[1].data.ingredients, searchInput)

\* C22: every comment addComment persists stores a recipeId equal to the id
\* whose existence it checked, the raw value of the request, which names a
\* recipe stored when the request arrived; so GET /api/comments with that id
\* selects the comment, and every persisted comment names a recipe the store
\* has held.
C22_StoredIdIsCheckedId ==
    /\ \A k \in (DOMAIN comments) \ (DOMAIN pre.comments) :
          /\ IsCommentPost
          /\ req.body.recipeId.t = "string"
          /\ comments[k].recipeId = req.body.recipeId.s
          /\ comments[k].recipeId \in DOMAIN pre.recipes
          /\ k \in WhereRecipeId(comments, req.body.recipeId.s)
    /\ \A k \in DOMAIN comments : comments[k].recipeId \in usedRecipeIds

\* a comment posted for the second recipe has been persisted under its id, and
\* a later POST naming the first recipe in angle brackets was answered 404
C22_Witness ==
    /\ IsCommentPost
    /\ req.body.recipeId = Str(<<"<", "r", "1", ">">>)
    /\ <<"r", "1">> \in DOMAIN recipes
    /\ resp.status = 404
    /\ \E k \in DOMAIN comments : comments[k].recipeId = <<"r", "2">>

\* C23: the comments fetched by the refresh of handleCommentSubmit are those
\* of the recipe its comment was posted to, however closeRecipeModal and
\* openRecipeModal run while the POST is in flight.
C23_RefreshIsOfPostedRecipe ==
    refreshed.posted /= NoId => refreshed.fetched = refreshed.posted

====
